---- MODULE Spec2Model ----
(***************************************************************************)
(* The namespace registry and debug loader of closure/goog/base.js:        *)
(* goog.provide, goog.exportSymbol, goog.addDependency, goog.require and   *)
(* goog.writeScripts_ with the import callback (CLOSURE_IMPORT_SCRIPT or   *)
(* goog.writeScriptTag_) as the environment.                               *)
(*                                                                         *)
(* A namespace name 'a.b.c' is the sequence of its parts <<"a","b","c">>   *)
(* (what name.split('.') returns); a module path is a string.  The import  *)
(* callback may fail, succeed without running the module yet (a script     *)
(* tag), or run the module synchronously, and the module's top-level code  *)
(* then calls back into goog.provide / goog.require / goog.addDependency   *)
(* before the callback returns.                                            *)
(***************************************************************************)
EXTENDS Naturals, Sequences, FiniteSets, TLC

VARIABLES
  global,              \* goog.global: the value found at each namespace name
  implicitNamespaces_, \* goog.implicitNamespaces_ (its keys)
  nameToPath,          \* goog.dependencies_.nameToPath
  pathToNames,         \* goog.dependencies_.pathToNames
  requires,            \* goog.dependencies_.requires (keys in insertion order)
  visited,             \* goog.dependencies_.visited (its keys)
  written,             \* goog.dependencies_.written (its keys: script srcs)
  included_,           \* goog.included_ (keys in insertion order)
  basePath,            \* goog.basePath
  stack,               \* the goog.writeScripts_ calls waiting for the import callback
  op,                  \* the last call made to the library
  err,                 \* the Error that call threw, or NoError
  pass,                \* what goog.writeScripts_ computed and imported in the last
                       \* goog.require call or after the last callback return
  everImported,        \* the module paths ever handed to the import callback
  nCalls,              \* number of goog.addDependency and goog.require calls made
  declared,            \* the names a goog.provide call declared without error, with
                       \* nothing but goog.provide calls made since
  everDeclared         \* the names a goog.provide call ever declared without error

vars == <<global, implicitNamespaces_, nameToPath, pathToNames, requires, visited,
          written, included_, basePath, stack, op, err, pass, everImported, nCalls,
          declared, everDeclared>>

nsVars == <<global, implicitNamespaces_>>
depVars == <<nameToPath, pathToNames, requires>>
loadVars == <<visited, written, included_, stack, pass, everImported>>

-----------------------------------------------------------------------------
(* Bounds and input sets *)

MaxCalls == 4
MaxDepth == 1

X == <<"x">>
Y == <<"y">>
Z == <<"z">>
A == <<"a">>
AB == <<"a", "b">>
ABC == <<"a", "b", "c">>

LoaderNames == {X, Y, Z}
NsNames == {A, AB, ABC}
AllNames == LoaderNames \cup NsNames

BasePaths == {"", "lib/"}

\* the goog.addDependency(relPath, provides, requires) lines a deps file may hold:
\* a chain m3 -> m2 -> m1, a cycle m1 <-> m2, a module requiring its own namespace,
\* a module with two requirements (one of them shared with m2), two modules
\* providing the same namespace, and a module whose two requirements are listed in
\* the other order, their owners independent of each other
DepLines == {<<"m1", <<X>>, <<>>>>, <<"m2", <<Y>>, <<X>>>>, <<"m3", <<Z>>, <<Y>>>>,
             <<"m1", <<X>>, <<Y>>>>, <<"m1", <<X>>, <<X>>>>,
             <<"m3", <<Z>>, <<X, Y>>>>, <<"m2", <<X>>, <<>>>>,
             <<"m2", <<Y>>, <<>>>>, <<"m3", <<Z>>, <<Y, X>>>>}

\* goog.addDependency lines over the names a and a.b.c: a module providing a, and a
\* module providing a.b.c that requires a
NsDepLines == {<<"m1", <<A>>, <<>>>>, <<"m2", <<ABC>>, <<A>>>>}

\* the values goog.exportSymbol is given: an object, a falsy non-null value, null
ExportValues == {"obj", "falsy", "null"}

NoError == <<"none">>

-----------------------------------------------------------------------------
(* Values and name lookup *)

Prefix(name, k) == SubSeq(name, 1, k)

\* JavaScript truthiness of a stored value
Truthy(v) == v = "obj"

isDefAndNotNull(v) == v \notin {"undef", "null"}

\* the value reached after the first k parts of name, "null" when a part is missing
RECURSIVE Lookup(_, _, _)
Lookup(g, name, k) ==
  IF k = 0 THEN "obj"
  ELSE LET cur == Lookup(g, name, k - 1)
       IN IF cur = "obj" /\ isDefAndNotNull(g[Prefix(name, k)])
            THEN g[Prefix(name, k)]
            ELSE "null"

getObjectByNameIn(g, name) == Lookup(g, name, Len(name))

getObjectByName(name) == getObjectByNameIn(global, name)

\* goog.isProvided_ without its test of goog.implicitNamespaces_
isProvidedInIgnoringImplicit(g, implicit, name) ==
  Truthy(getObjectByNameIn(g, name))

isProvidedIn(g, implicit, name) ==
  name \notin implicit /\ Truthy(getObjectByNameIn(g, name))

isProvided_(name) == isProvidedIn(global, implicitNamespaces_, name)

-----------------------------------------------------------------------------
(* goog.exportPath_ and goog.provide *)

IsProperPrefix(p, name) == Len(p) < Len(name) /\ Prefix(name, Len(p)) = p

\* cur[part] = v for a v that is a fresh value: nothing is found below it
Assign(g, name, v) ==
  [m \in DOMAIN g |-> IF m = name THEN v
                      ELSE IF IsProperPrefix(name, m) THEN "undef"
                      ELSE g[m]]

\* the loop of goog.exportPath_ from part k on; opt_object = "undef" when not given
RECURSIVE exportPathFrom(_, _, _, _)
exportPathFrom(g, name, opt_object, k) ==
  IF k > Len(name) THEN g
  ELSE IF k = Len(name) /\ opt_object # "undef"
         THEN Assign(g, name, opt_object)
  ELSE IF Truthy(g[Prefix(name, k)])
         THEN exportPathFrom(g, name, opt_object, k + 1)
  ELSE exportPathFrom(Assign(g, Prefix(name, k), "obj"), name, opt_object, k + 1)

exportPath_(g, name, opt_object) == exportPathFrom(g, name, opt_object, 1)

\* the loop without its break at an ancestor that exists already
RECURSIVE markImplicitWithoutBreak(_, _, _)
markImplicitWithoutBreak(g, implicit, namespace) ==
  IF Len(namespace) = 0 THEN implicit
  ELSE markImplicitWithoutBreak(g, implicit \cup {namespace},
                                Prefix(namespace, Len(namespace) - 1))

\* the loop stopping after the nearest ancestor
markImplicitNearestOnly(g, implicit, namespace) ==
  IF Len(namespace) = 0 \/ Truthy(getObjectByNameIn(g, namespace)) THEN implicit
  ELSE implicit \cup {namespace}

\* the while loop of goog.provide over the ancestors of name, nearest first
RECURSIVE markImplicit(_, _, _)
markImplicit(g, implicit, namespace) ==
  IF Len(namespace) = 0 THEN implicit
  ELSE IF Truthy(getObjectByNameIn(g, namespace)) THEN implicit
  ELSE markImplicit(g, implicit \cup {namespace},
                    Prefix(namespace, Len(namespace) - 1))

AlreadyDeclared(name) == <<"Namespace already declared", name>>
CouldNotFind(name) == <<"goog.require could not find", name>>
UndefinedNameToPath(name) == <<"Undefined nameToPath for", name>>
UndefinedScriptInput == <<"Undefined script input">>

-----------------------------------------------------------------------------
(* goog.writeScripts_: the walk *)

\* the keys of deps.requires[path] in insertion order; none when path has no entry
RequiresOf(path) == IF path \in DOMAIN requires THEN requires[path] ELSE <<>>

\* scripts.push(path) without the seenScript test
PushWithoutSeenTest(w, path) ==
  [w EXCEPT !.seenScript = @ \cup {path}, !.scripts = Append(@, path)]

Push(w, path) ==
  IF path \in w.seenScript THEN w
  ELSE [w EXCEPT !.seenScript = @ \cup {path}, !.scripts = Append(@, path)]

\* visitNode(path), and the for-in loop over deps.requires[path] from its k-th key.
\* w holds deps.visited, seenScript, scripts and the Error thrown so far.
RECURSIVE visitNode(_, _), visitRequires(_, _, _), visitRequiresSkippingUnowned(_, _, _),
          visitRequiresBackwards(_, _, _)

\* visitNode appending the path before it visits what the path requires
visitNodePreOrder(path, w) ==
  IF w.err # NoError THEN w
  ELSE IF path \in written THEN w
  ELSE IF path \in w.visited THEN Push(w, path)
  ELSE visitRequires(path, 1, Push([w EXCEPT !.visited = @ \cup {path}], path))

\* visitNode returning from a visited path without appending it
visitNodeSilentOnVisited(path, w) ==
  IF w.err # NoError THEN w
  ELSE IF path \in written THEN w
  ELSE IF path \in w.visited THEN w
  ELSE LET w2 == visitRequires(path, 1, [w EXCEPT !.visited = @ \cup {path}])
       IN IF w2.err # NoError THEN w2 ELSE Push(w2, path)

visitNode(path, w) ==
  IF w.err # NoError THEN w
  ELSE IF path \in written THEN w
  ELSE IF path \in w.visited THEN Push(w, path)
  ELSE LET w2 == visitRequires(path, 1, [w EXCEPT !.visited = @ \cup {path}])
       IN IF w2.err # NoError THEN w2 ELSE Push(w2, path)

\* the loop going through the keys of deps.requires[path] from the last to the first
visitRequiresBackwards(path, k, w) ==
  IF w.err # NoError \/ k > Len(RequiresOf(path)) THEN w
  ELSE LET requireName == RequiresOf(path)[Len(RequiresOf(path)) + 1 - k]
       IN IF isProvided_(requireName)
            THEN visitRequiresBackwards(path, k + 1, w)
          ELSE IF requireName \in DOMAIN nameToPath
            THEN visitRequiresBackwards(path, k + 1,
                                        visitNode(nameToPath[requireName], w))
          ELSE [w EXCEPT !.err = UndefinedNameToPath(requireName)]

\* the for-in loop passing over a required name no path is registered for
visitRequiresSkippingUnowned(path, k, w) ==
  IF w.err # NoError \/ k > Len(RequiresOf(path)) THEN w
  ELSE LET requireName == RequiresOf(path)[k]
       IN IF isProvided_(requireName) \/ requireName \notin DOMAIN nameToPath
            THEN visitRequiresSkippingUnowned(path, k + 1, w)
          ELSE visitRequiresSkippingUnowned(path, k + 1,
                                            visitNode(nameToPath[requireName], w))

visitRequires(path, k, w) ==
  IF w.err # NoError \/ k > Len(RequiresOf(path)) THEN w
  ELSE LET requireName == RequiresOf(path)[k]
       IN IF isProvided_(requireName)
            THEN visitRequires(path, k + 1, w)
          ELSE IF requireName \in DOMAIN nameToPath
            THEN visitRequires(path, k + 1, visitNode(nameToPath[requireName], w))
          ELSE [w EXCEPT !.err = UndefinedNameToPath(requireName)]

\* the for-in loop over goog.included_ from its k-th key
RECURSIVE visitIncluded(_, _, _)
visitIncluded(incl, k, w) ==
  IF w.err # NoError \/ k > Len(incl) THEN w
  ELSE IF incl[k] \in written
         THEN visitIncluded(incl, k + 1, w)
  ELSE visitIncluded(incl, k + 1, visitNode(incl[k], w))

\* the walk of goog.writeScripts_ with goog.included_ = incl
Walk(incl) ==
  visitIncluded(incl, 1,
    [visited |-> visited, seenScript |-> {}, scripts |-> <<>>, err |-> NoError])

-----------------------------------------------------------------------------
(* goog.writeScripts_: the import loop, and goog.importScript_ *)

\* what the import callback does with a script: return false, return true without
\* having run the module, or run the module before it returns
Outcomes == {"fail", "ok", "run"}

\* the for loop over scripts from index i; out[i] is what the callback does with
\* scripts[i] when goog.importScript_ calls it.  The loop stops where the callback
\* runs the module: the module's code is the environment's next calls.
RECURSIVE importLoop(_, _, _, _, _), importLoopWithoutWrittenTest(_, _, _, _, _),
          importLoopHaltingOnFailure(_, _, _, _, _), importLoopOneAtATime(_, _, _, _, _),
          importLoopRollingBack(_, _, _, _, _)

\* the loop taking back, when the callback returns false, the written marks of the
\* paths it imported before
importLoopRollingBack(scripts, i, wr, imported, out) ==
  IF i > Len(scripts)
    THEN [i |-> i, written |-> wr, imported |-> imported, status |-> "complete"]
  ELSE IF scripts[i] = ""
    THEN [i |-> i, written |-> wr, imported |-> imported, status |-> "thrown"]
  ELSE LET src == basePath \o scripts[i]
       IN IF src \in wr
            THEN importLoopRollingBack(scripts, i + 1, wr, imported, out)
          ELSE IF out[i] = "run"
            THEN [i |-> i, written |-> wr, imported |-> Append(imported, scripts[i]),
                  status |-> "running"]
          ELSE importLoopRollingBack(scripts, i + 1,
                 IF out[i] = "ok" THEN wr \cup {src}
                 ELSE wr \ {basePath \o imported[k] : k \in 1..Len(imported)},
                 Append(imported, scripts[i]), out)

\* the loop leaving goog.writeScripts_ after one import the callback reports as done
importLoopOneAtATime(scripts, i, wr, imported, out) ==
  IF i > Len(scripts)
    THEN [i |-> i, written |-> wr, imported |-> imported, status |-> "complete"]
  ELSE IF scripts[i] = ""
    THEN [i |-> i, written |-> wr, imported |-> imported, status |-> "thrown"]
  ELSE LET src == basePath \o scripts[i]
       IN IF src \in wr
            THEN importLoopOneAtATime(scripts, i + 1, wr, imported, out)
          ELSE IF out[i] = "run"
            THEN [i |-> i, written |-> wr, imported |-> Append(imported, scripts[i]),
                  status |-> "running"]
          ELSE IF out[i] = "ok"
            THEN [i |-> i, written |-> wr \cup {src},
                  imported |-> Append(imported, scripts[i]), status |-> "complete"]
          ELSE importLoopOneAtATime(scripts, i + 1, wr, Append(imported, scripts[i]), out)

\* the loop leaving goog.writeScripts_ when the callback returns false
importLoopHaltingOnFailure(scripts, i, wr, imported, out) ==
  IF i > Len(scripts)
    THEN [i |-> i, written |-> wr, imported |-> imported, status |-> "complete"]
  ELSE IF scripts[i] = ""
    THEN [i |-> i, written |-> wr, imported |-> imported, status |-> "thrown"]
  ELSE LET src == basePath \o scripts[i]
       IN IF src \in wr
            THEN importLoopHaltingOnFailure(scripts, i + 1, wr, imported, out)
          ELSE IF out[i] = "run"
            THEN [i |-> i, written |-> wr, imported |-> Append(imported, scripts[i]),
                  status |-> "running"]
          ELSE IF out[i] = "fail"
            THEN [i |-> i, written |-> wr, imported |-> Append(imported, scripts[i]),
                  status |-> "complete"]
          ELSE importLoopHaltingOnFailure(scripts, i + 1, wr \cup {src},
                                          Append(imported, scripts[i]), out)

\* the loop with a goog.importScript_ that does not test dependencies_.written
importLoopWithoutWrittenTest(scripts, i, wr, imported, out) ==
  IF i > Len(scripts)
    THEN [i |-> i, written |-> wr, imported |-> imported, status |-> "complete"]
  ELSE IF scripts[i] = ""
    THEN [i |-> i, written |-> wr, imported |-> imported, status |-> "thrown"]
  ELSE IF out[i] = "run"
    THEN [i |-> i, written |-> wr, imported |-> Append(imported, scripts[i]),
          status |-> "running"]
  ELSE importLoopWithoutWrittenTest(scripts, i + 1,
         IF out[i] = "ok" THEN wr \cup {basePath \o scripts[i]} ELSE wr,
         Append(imported, scripts[i]), out)

importLoop(scripts, i, wr, imported, out) ==
  IF i > Len(scripts)
    THEN [i |-> i, written |-> wr, imported |-> imported, status |-> "complete"]
  ELSE IF scripts[i] = ""
    THEN [i |-> i, written |-> wr, imported |-> imported, status |-> "thrown"]
  ELSE LET src == basePath \o scripts[i]
       IN IF src \in wr
            THEN importLoop(scripts, i + 1, wr, imported, out)
          ELSE IF out[i] = "run"
            THEN [i |-> i, written |-> wr, imported |-> Append(imported, scripts[i]),
                  status |-> "running"]
          ELSE importLoop(scripts, i + 1,
                          IF out[i] = "ok" THEN wr \cup {src} ELSE wr,
                          Append(imported, scripts[i]), out)

Range(s) == {s[k] : k \in 1..Len(s)}

AllowedOutcomes(depth) == IF depth < MaxDepth THEN Outcomes ELSE Outcomes \ {"run"}

NoPass == [scripts |-> <<>>, imported |-> <<>>, status |-> "none"]

Op(kind, name, path) == [kind |-> kind, name |-> name, path |-> path]

\* an Error thrown while import callbacks are running propagates through k of them
Unwind(k) == stack' = SubSeq(stack, 1, Len(stack) - k)

\* the rest of goog.writeScripts_ once scripts is computed, from index i with the
\* callbacks of the frames below still running
\* goog.importScript_ calls the callback for scripts[k] in the loop from index i
Consulted(scripts, i, wr, out, k) ==
  /\ k >= i
  /\ basePath \o scripts[k] \notin wr
  /\ \A j \in i..(k - 1) : basePath \o scripts[j] \in wr \/ out[j] # "run"

RunImports(below, scripts, i, wr, imported) ==
  \E out \in [1..Len(scripts) -> AllowedOutcomes(Len(below))] :
    LET r == importLoop(scripts, i, wr, imported, out)
    IN /\ \A k \in 1..Len(scripts) :
            Consulted(scripts, i, wr, out, k) \/ out[k] = "fail"
       /\ written' = r.written
       /\ everImported' = everImported \cup Range(r.imported)
       /\ pass' = [scripts |-> scripts, imported |-> r.imported, status |-> r.status]
       /\ err' = IF r.status = "thrown" THEN UndefinedScriptInput ELSE NoError
       /\ stack' = IF r.status = "running"
                     THEN Append(below, [scripts |-> scripts, i |-> r.i,
                                         imported |-> r.imported])
                     ELSE below

-----------------------------------------------------------------------------
(* The calls *)

\* the page before any goog.addDependency line has run; CLOSURE_NO_DEPS is set, so
\* dependencies_.written holds no key for deps.js
Init ==
  /\ global = [n \in AllNames |-> "undef"]
  /\ implicitNamespaces_ = {}
  /\ nameToPath = <<>>
  /\ pathToNames = <<>>
  /\ requires = <<>>
  /\ visited = {}
  /\ written = {}
  /\ included_ = <<>>
  /\ basePath \in BasePaths
  /\ stack = <<>>
  /\ op = Op("init", <<>>, "")
  /\ err = NoError
  /\ pass = NoPass
  /\ everImported = {}
  /\ nCalls = 0
  /\ declared = {}
  /\ everDeclared = {}

\* goog.provide deleting goog.implicitNamespaces_[name] before its
\* goog.isProvided_ test
ProvideDeletingMarkFirst(name) ==
  /\ op' = Op("provide", name, "")
  /\ IF isProvidedIn(global, implicitNamespaces_ \ {name}, name)
       THEN /\ err' = AlreadyDeclared(name)
            /\ \E k \in 0..Len(stack) : Unwind(k)
            /\ implicitNamespaces_' = implicitNamespaces_ \ {name}
            /\ UNCHANGED <<global, declared, everDeclared>>
       ELSE /\ err' = NoError
            /\ implicitNamespaces_' =
                 markImplicit(global, implicitNamespaces_ \ {name},
                              Prefix(name, Len(name) - 1))
            /\ global' = exportPath_(global, name, "undef")
            /\ declared' = declared \cup {name}
            /\ everDeclared' = everDeclared \cup {name}
            /\ UNCHANGED stack
  /\ UNCHANGED <<depVars, visited, written, included_, pass, everImported, basePath, nCalls>>

\* goog.provide without its delete goog.implicitNamespaces_[name]
ProvideKeepingImplicitMark(name) ==
  /\ op' = Op("provide", name, "")
  /\ IF isProvided_(name)
       THEN /\ err' = AlreadyDeclared(name)
            /\ \E k \in 0..Len(stack) : Unwind(k)
            /\ UNCHANGED <<nsVars, declared, everDeclared>>
       ELSE /\ err' = NoError
            /\ implicitNamespaces_' =
                 markImplicit(global, implicitNamespaces_, Prefix(name, Len(name) - 1))
            /\ global' = exportPath_(global, name, "undef")
            /\ declared' = declared \cup {name}
            /\ everDeclared' = everDeclared \cup {name}
            /\ UNCHANGED stack
  /\ UNCHANGED <<depVars, visited, written, included_, pass, everImported, basePath, nCalls>>

\* goog.provide(name)
Provide(name) ==
  /\ op' = Op("provide", name, "")
  /\ IF isProvided_(name)
       THEN /\ err' = AlreadyDeclared(name)
            /\ \E k \in 0..Len(stack) : Unwind(k)
            /\ UNCHANGED <<nsVars, declared, everDeclared>>
       ELSE /\ err' = NoError
            /\ implicitNamespaces_' =
                 markImplicit(global, implicitNamespaces_ \ {name},
                              Prefix(name, Len(name) - 1))
            /\ global' = exportPath_(global, name, "undef")
            /\ declared' = declared \cup {name}
            /\ everDeclared' = everDeclared \cup {name}
            /\ UNCHANGED stack
  /\ UNCHANGED <<depVars, visited, written, included_, pass, everImported, basePath, nCalls>>

\* goog.exportSymbol(publicPath, object)
ExportSymbol(publicPath, object) ==
  /\ op' = Op("exportSymbol", publicPath, object)
  /\ err' = NoError
  /\ global' = exportPath_(global, publicPath, object)
  /\ declared' = {}
  /\ UNCHANGED everDeclared
  /\ UNCHANGED <<implicitNamespaces_, depVars, loadVars, basePath, nCalls>>

\* obj[key] = true on an object whose keys are kept in insertion order
AddKey(keys, key) == IF key \in Range(keys) THEN keys ELSE Append(keys, key)

RECURSIVE AddKeys(_, _, _)
AddKeys(keys, new, k) ==
  IF k > Len(new) THEN keys ELSE AddKeys(AddKey(keys, new[k]), new, k + 1)

Put(f, key, v) == [x \in DOMAIN f \cup {key} |-> IF x = key THEN v ELSE f[x]]

\* goog.addDependency appending each required name to a list, present or not
AddDependencyAppendingRequires(relPath, provides, reqs) ==
  LET path == relPath
  IN /\ nCalls < MaxCalls
     /\ nCalls' = nCalls + 1
     /\ op' = Op("addDependency", <<>>, path)
     /\ err' = NoError
     /\ nameToPath' = [n \in DOMAIN nameToPath \cup Range(provides) |->
                         IF n \in Range(provides) THEN path ELSE nameToPath[n]]
     /\ pathToNames' =
          IF provides = <<>> THEN pathToNames
          ELSE Put(pathToNames, path,
                   (IF path \in DOMAIN pathToNames THEN pathToNames[path] ELSE {})
                     \cup Range(provides))
     /\ requires' =
          IF reqs = <<>> THEN requires
          ELSE Put(requires, path, RequiresOf(path) \o reqs)
     /\ UNCHANGED <<nsVars, loadVars, basePath, declared, everDeclared>>

\* goog.addDependency keeping the path already registered for a provided name
AddDependencyFirstWins(relPath, provides, reqs) ==
  LET path == relPath
  IN /\ nCalls < MaxCalls
     /\ nCalls' = nCalls + 1
     /\ op' = Op("addDependency", <<>>, path)
     /\ err' = NoError
     /\ nameToPath' = [n \in DOMAIN nameToPath \cup Range(provides) |->
                         IF n \in DOMAIN nameToPath THEN nameToPath[n] ELSE path]
     /\ pathToNames' =
          IF provides = <<>> THEN pathToNames
          ELSE Put(pathToNames, path,
                   (IF path \in DOMAIN pathToNames THEN pathToNames[path] ELSE {})
                     \cup Range(provides))
     /\ requires' =
          IF reqs = <<>> THEN requires
          ELSE Put(requires, path, AddKeys(RequiresOf(path), reqs, 1))
     /\ UNCHANGED <<nsVars, loadVars, basePath, declared, everDeclared>>

\* goog.addDependency(relPath, provides, requires); relPath holds no backslash
AddDependency(relPath, provides, reqs) ==
  LET path == relPath
  IN /\ nCalls < MaxCalls
     /\ nCalls' = nCalls + 1
     /\ op' = Op("addDependency", <<>>, path)
     /\ err' = NoError
     /\ nameToPath' = [n \in DOMAIN nameToPath \cup Range(provides) |->
                         IF n \in Range(provides) THEN path ELSE nameToPath[n]]
     /\ pathToNames' =
          IF provides = <<>> THEN pathToNames
          ELSE Put(pathToNames, path,
                   (IF path \in DOMAIN pathToNames THEN pathToNames[path] ELSE {})
                     \cup Range(provides))
     /\ requires' =
          IF reqs = <<>> THEN requires
          ELSE Put(requires, path, AddKeys(RequiresOf(path), reqs, 1))
     /\ UNCHANGED <<nsVars, loadVars, basePath, declared, everDeclared>>

\* goog.writeScripts_ importing each path as the walk appends it, so that the paths
\* appended before the walk throws are imported already
writeScriptsImportingAsAppended(incl) ==
  LET w == Walk(incl)
  IN /\ visited' = w.visited
     /\ IF w.err # NoError
          THEN /\ err' = w.err
               /\ pass' = [scripts |-> w.scripts, imported |-> w.scripts,
                           status |-> "aborted"]
               /\ \E k \in 0..Len(stack) : Unwind(k)
               /\ written' = written \cup {basePath \o p : p \in Range(w.scripts)}
               /\ everImported' = everImported \cup Range(w.scripts)
          ELSE RunImports(stack, w.scripts, 1, written, <<>>)

\* goog.writeScripts_() called with goog.included_ = incl
writeScripts_(incl) ==
  LET w == Walk(incl)
  IN /\ visited' = w.visited
     /\ IF w.err # NoError
          THEN /\ err' = w.err
               /\ pass' = [NoPass EXCEPT !.status = "aborted"]
               /\ \E k \in 0..Len(stack) : Unwind(k)
               /\ UNCHANGED <<written, everImported>>
          ELSE RunImports(stack, w.scripts, 1, written, <<>>)

\* goog.getPathFromDeps_(rule), null when no path is registered for rule
getPathFromDeps_(rule) == IF rule \in DOMAIN nameToPath THEN nameToPath[rule] ELSE "null"

\* goog.require past its goog.isProvided_ test, the walk starting from the
\* requested path alone
RequireUnprovidedSeedingOwnPath(name) ==
  LET path == getPathFromDeps_(name)
  IN IF path \notin {"null", ""}
       THEN /\ included_' = AddKey(included_, path)
            /\ writeScripts_(<<path>>)
       ELSE /\ err' = CouldNotFind(name)
            /\ pass' = NoPass
            /\ \E k \in 0..Len(stack) : Unwind(k)
            /\ UNCHANGED <<visited, written, included_, everImported>>

\* goog.require(name) past its goog.isProvided_ test
RequireUnprovided(name) ==
  LET path == getPathFromDeps_(name)
  IN IF path \notin {"null", ""}
       THEN /\ included_' = AddKey(included_, path)
            /\ writeScripts_(AddKey(included_, path))
       ELSE /\ err' = CouldNotFind(name)
            /\ pass' = NoPass
            /\ \E k \in 0..Len(stack) : Unwind(k)
            /\ UNCHANGED <<visited, written, included_, everImported>>

\* goog.require without its early return for a provided name
RequireIgnoringProvided(name) ==
  /\ nCalls < MaxCalls
  /\ nCalls' = nCalls + 1
  /\ op' = Op("require", name, "")
  /\ UNCHANGED <<nsVars, depVars, basePath, declared, everDeclared>>
  /\ RequireUnprovided(name)

\* goog.require(name)
Require(name) ==
  /\ nCalls < MaxCalls
  /\ nCalls' = nCalls + 1
  /\ op' = Op("require", name, "")
  /\ UNCHANGED <<nsVars, depVars, basePath, declared, everDeclared>>
  /\ IF isProvided_(name)
       THEN /\ err' = NoError
            /\ pass' = NoPass
            /\ UNCHANGED <<visited, written, included_, stack, everImported>>
       ELSE RequireUnprovided(name)

\* the import callback that ran a module returns ok to goog.importScript_, and the
\* goog.writeScripts_ that called it goes on
Return(ok) ==
  /\ stack # <<>>
  /\ LET f == stack[Len(stack)]
         src == basePath \o f.scripts[f.i]
     IN /\ op' = Op("return", <<>>, f.scripts[f.i])
        /\ RunImports(SubSeq(stack, 1, Len(stack) - 1), f.scripts, f.i + 1,
                      IF ok THEN written \cup {src} ELSE written, f.imported)
  /\ UNCHANGED <<nsVars, depVars, visited, included_, basePath, nCalls, declared, everDeclared>>

Next ==
  \/ \E name \in LoaderNames : Provide(name)
  \/ \E name \in LoaderNames : Require(name)
  \/ \E d \in DepLines : AddDependency(d[1], d[2], d[3])
  \/ \E ok \in BOOLEAN : Return(ok)

Spec == Init /\ [][Next]_vars

\* the namespace registry alone, over the names a, a.b and a.b.c
NextNs ==
  \/ \E name \in NsNames : Provide(name)
  \/ \E name \in NsNames, object \in ExportValues : ExportSymbol(name, object)

SpecNs == Init /\ [][NextNs]_vars

\* the loader over the names a, a.b and a.b.c, where goog.provide of a longer name
\* leaves its ancestors implicit
NextImplicit ==
  \/ \E name \in NsNames : Provide(name)
  \/ \E name \in NsNames : Require(name)
  \/ \E d \in NsDepLines : AddDependency(d[1], d[2], d[3])
  \/ \E ok \in BOOLEAN : Return(ok)

SpecImplicit == Init /\ [][NextImplicit]_vars

-----------------------------------------------------------------------------
(* Vocabulary of the properties *)

Src(path) == basePath \o path

Owned(name) == name \in DOMAIN nameToPath

\* module a requires a namespace whose registered owner is module b
RequiresModule(a, b) ==
  \E r \in Range(RequiresOf(a)) : Owned(r) /\ nameToPath[r] = b

Modules == DOMAIN requires \cup DOMAIN pathToNames

RECURSIVE ReachableFrom(_)
ReachableFrom(S) ==
  LET T == S \cup {b \in Modules : \E a \in S : RequiresModule(a, b)}
  IN IF T = S THEN S ELSE ReachableFrom(T)

\* the modules a reaches along one or more requires edges
Needs(a) == ReachableFrom({b \in Modules : RequiresModule(a, b)})

Acyclic == \A a \in Modules : a \notin Needs(a)

\* the paths handed to the import callback in the step just taken
HandedNow ==
  IF op'.kind = "require" THEN pass'.imported
  ELSE IF op'.kind = "return"
    THEN SubSeq(pass'.imported, Len(stack[Len(stack)].imported) + 1,
                Len(pass'.imported))
  ELSE <<>>

\* a goog.require call whose goog.writeScripts_ ran to its end within the call
\* (no callback ran a module), seen in the state the call leaves
WholePass == op.kind = "require" /\ pass.status = "complete"

-----------------------------------------------------------------------------
(* C1: in every injection sequence of a pass that holds two modules A and B with
   A requiring a namespace owned by B, B is handed to the import callback before
   A.  Stated here for acyclic requires graphs, where no order can be blamed on a
   cycle. *)
C1_RequiredBeforeRequiring ==
  (WholePass /\ Acyclic) =>
    \A i, j \in 1..Len(pass.imported) :
      (i < j /\ pass.imported[i] # pass.imported[j])
        => ~RequiresModule(pass.imported[i], pass.imported[j])

(* C2: once the import callback has returned success for a module path (its src is
   in dependencies_.written), no later step hands that path to the callback again;
   and no step hands the same path twice. *)
C2_NoImportAfterSuccess ==
  [][\A k \in 1..Len(HandedNow) :
       /\ Src(HandedNow[k]) \notin written
       /\ \A j \in 1..(k - 1) : HandedNow[j] # HandedNow[k]]_vars

\* a second pass met a module already written (its src, under a non-empty basePath,
\* is not the key the walk tests) and did not hand it to the callback again
C2_Witness ==
  /\ WholePass
  /\ basePath # ""
  /\ \E k \in 1..Len(pass.scripts) :
       Src(pass.scripts[k]) \in written /\ pass.scripts[k] \notin Range(pass.imported)
  /\ pass.imported # <<>>

(* C3: with an acyclic requires graph, whenever a module path is handed to the
   import callback, every namespace the module requires is provided at that moment
   or is owned by a module handed to the callback earlier, in this pass or before. *)
C3_RequirementsMetWhenImported ==
  [][Acyclic =>
       \A k \in 1..Len(HandedNow) :
         \A r \in Range(RequiresOf(HandedNow[k])) :
           \/ isProvided_(r)
           \/ /\ Owned(r)
              /\ nameToPath[r] \in everImported \cup {HandedNow[j] : j \in 1..(k - 1)}]_vars

Count(seq, x) == Cardinality({k \in 1..Len(seq) : seq[k] = x})

\* the modules on a requires cycle through module a (a itself when it is on one)
CycleOf(a) == {b \in Needs(a) : a \in Needs(b)}

\* every namespace required by a or by a module a reaches has an owner, and none
\* of them is provided
RequirementsOwnedAndOpen(a) ==
  \A m \in Needs(a) \cup {a} :
    \A r \in Range(RequiresOf(m)) : Owned(r) /\ ~isProvided_(r)

(* C4: a goog.require of a namespace whose owner is on a requires cycle (every
   required namespace having an owner, none provided, no module of the cycle written
   yet) ends without error and its scripts hold every module of the cycle exactly
   once. *)
C4_CycleEmittedOnce ==
  [][(/\ op'.kind = "require"
      /\ ~isProvided_(op'.name)
      /\ Owned(op'.name)
      /\ CycleOf(nameToPath[op'.name]) # {}
      /\ RequirementsOwnedAndOpen(nameToPath[op'.name])
      /\ \A b \in CycleOf(nameToPath[op'.name]) : Src(b) \notin written /\ b \notin written)
     => /\ err' = NoError
        /\ \A b \in CycleOf(nameToPath[op'.name]) : Count(pass'.scripts, b) = 1]_vars

(* C5: when goog.require(n) is called twice in a row, the first pass having run to
   its end with every import succeeding and n still not provided, the second call
   hands nothing to the import callback and computes an empty scripts array. *)
C5_SecondRequireEmpty ==
  [][(/\ WholePass
      /\ err = NoError
      /\ \A k \in 1..Len(pass.scripts) : Src(pass.scripts[k]) \in written
      /\ op'.kind = "require"
      /\ op'.name = op.name
      /\ ~isProvided_(op.name))
     => pass'.imported = <<>> /\ pass'.scripts = <<>>]_vars

\* goog.addDependency(path, provides, ...) was just called with a namespace n of
\* provides owned, before the call, by another path
ConflictingAdd(n) ==
  /\ op'.kind = "addDependency"
  /\ Owned(n)
  /\ nameToPath[n] # op'.path
  /\ op'.path \in DOMAIN pathToNames'
  /\ n \in pathToNames'[op'.path]
  /\ (op'.path \notin DOMAIN pathToNames \/ n \notin pathToNames[op'.path])

(* C6, as claimed: registering a second module path for a namespace another path
   owns raises an error and leaves nameToPath[n] on the first path. *)
C6_ConflictRejected ==
  [][\A n \in LoaderNames :
       ConflictingAdd(n) => err' # NoError /\ nameToPath'[n] = nameToPath[n]]_vars

(* C6, amended: the call raises no error, nameToPath[n] is the new path afterwards
   (the last registration wins) and pathToNames of the first path still lists n. *)
C6_LastRegistrationWins ==
  [][\A n \in LoaderNames :
       ConflictingAdd(n) =>
         /\ err' = NoError
         /\ nameToPath'[n] = op'.path
         /\ n \in pathToNames'[nameToPath[n]]]_vars

C6_Witness ==
  /\ op.kind = "addDependency"
  /\ op.path = "m2"
  /\ Owned(X) /\ nameToPath[X] = "m2"
  /\ "m1" \in DOMAIN pathToNames /\ X \in pathToNames["m1"]

\* namespace r can be satisfied by nothing: it is not provided and has no owner
Unresolvable(r) == ~isProvided_(r) /\ ~Owned(r)

(* C7: goog.require(n) of a namespace that is neither provided nor owned throws
   'goog.require could not find: n'; and when the walk of a pass enters a module
   (marks it visited) that requires such a namespace, the pass throws 'Undefined
   nameToPath for r' for a namespace r of that kind, which a module entered in this
   pass requires. *)
C7_UnresolvedNamed ==
  [][op'.kind = "require" =>
       /\ Unresolvable(op'.name) => err' = CouldNotFind(op'.name)
       /\ (\E p \in visited' \ visited : \E r \in Range(RequiresOf(p)) : Unresolvable(r))
            => \E p \in visited' \ visited : \E r \in Range(RequiresOf(p)) :
                 Unresolvable(r) /\ err' = UndefinedNameToPath(r)
       /\ \A r \in LoaderNames :
            err' = UndefinedNameToPath(r) =>
              /\ Unresolvable(r)
              /\ \E p \in visited' \ visited : r \in Range(RequiresOf(p))]_vars

\* goog.require('z') met, two modules down the chain, the requirement x nobody owns
C7_Witness ==
  /\ op.kind = "require"
  /\ op.name = Z
  /\ err = UndefinedNameToPath(X)
  /\ visited = {"m3", "m2"}

(* C8: goog.require(n) of a provided namespace n changes nothing: nothing is handed
   to the import callback, no scripts are computed, and goog.included_,
   dependencies_.visited and dependencies_.written stay as they were. *)
C8_RequireProvidedIsNoOp ==
  [][(op'.kind = "require" /\ isProvided_(op'.name)) =>
       /\ err' = NoError
       /\ pass'.scripts = <<>> /\ pass'.imported = <<>>
       /\ UNCHANGED <<included_, visited, written, everImported, stack>>]_vars

\* a provided namespace whose registered owner was never imported was required
C8_Witness ==
  /\ op.kind = "require"
  /\ isProvided_(op.name)
  /\ Owned(op.name)
  /\ nameToPath[op.name] \notin everImported
  /\ nameToPath[op.name] \notin visited

\* the loader right after addDependency('m1',['x'],[]), ('m2',['y'],['x']) and
\* ('m3',['z'],['y']) on a fresh page
FreshChain ==
  /\ nameToPath = (X :> "m1" @@ Y :> "m2" @@ Z :> "m3")
  /\ pathToNames = ("m1" :> {X} @@ "m2" :> {Y} @@ "m3" :> {Z})
  /\ requires = ("m2" :> <<X>> @@ "m3" :> <<Y>>)
  /\ \A n \in AllNames : global[n] = "undef"
  /\ implicitNamespaces_ = {}
  /\ visited = {} /\ written = {} /\ included_ = <<>> /\ stack = <<>>

Chain == <<"m1", "m2", "m3">>

(* C9: on the fresh chain m3 -> m2 -> m1, goog.require('z') computes the scripts
   [m1, m2, m3] and hands them to the import callback in that order: all three when
   the pass runs to its end, and the first ones up to the module being run when a
   callback runs a module. *)
C9_ChainOrder ==
  [][(FreshChain /\ op'.kind = "require" /\ op'.name = Z) =>
       /\ err' = NoError
       /\ pass'.scripts = Chain
       /\ pass'.status = "complete" => pass'.imported = Chain
       /\ pass'.status = "running" =>
            \E k \in 1..3 : pass'.imported = SubSeq(Chain, 1, k)]_vars

C9_Witness ==
  /\ op.kind = "require" /\ op.name = Z
  /\ nCalls = 4
  /\ nameToPath = (X :> "m1" @@ Y :> "m2" @@ Z :> "m3")
  /\ requires = ("m2" :> <<X>> @@ "m3" :> <<Y>>)
  /\ pass = [scripts |-> Chain, imported |-> Chain, status |-> "complete"]
  /\ written = {Src("m1"), Src("m2"), Src("m3")}

(* C10: after goog.provide('a.b.c') called while neither 'a' nor 'a.b' is declared
   (goog.isProvided_ false for both), goog.getObjectByName finds an object at 'a'
   and at 'a.b', goog.isProvided_ is false for 'a' and 'a.b' and true for
   'a.b.c'. *)
C10_ImplicitAncestors ==
  [][(op'.kind = "provide" /\ op'.name = ABC /\ ~isProvided_(A) /\ ~isProvided_(AB)) =>
       /\ getObjectByName(A)' = "obj"
       /\ getObjectByName(AB)' = "obj"
       /\ ~isProvided_(A)'
       /\ ~isProvided_(AB)'
       /\ isProvided_(ABC)']_vars

\* goog.provide('a.b.c') succeeded and created both ancestors
C10_Witness ==
  /\ op.kind = "provide" /\ op.name = ABC /\ err = NoError
  /\ implicitNamespaces_ = {A, AB}
  /\ global[A] = "obj" /\ global[AB] = "obj" /\ global[ABC] = "obj"

(* C11: goog.provide(path) throws 'Namespace "path" already declared.' whenever an
   earlier goog.provide(path) succeeded, whatever other goog.provide calls (of
   ancestors or descendants of path among them) were made in between; the failed
   call leaves the registry as it was. *)
C11_DeclaredTwiceFails ==
  [][(op'.kind = "provide" /\ op'.name \in declared) =>
       /\ err' = AlreadyDeclared(op'.name)
       /\ UNCHANGED <<global, implicitNamespaces_>>]_vars

\* 'a.b' was declared, its ancestor and its descendant were declared too, and a
\* second goog.provide('a.b') failed
C11_Witness ==
  /\ op.kind = "provide" /\ op.name = AB
  /\ err = AlreadyDeclared(AB)
  /\ declared = {A, AB, ABC}

(* C12: goog.provide(path) of a path that is in goog.implicitNamespaces_ succeeds
   without error, takes path out of goog.implicitNamespaces_ and makes
   goog.isProvided_(path) true; when path resolves to its container object, the call
   leaves every object of the registry in place, so every name that was provided
   before is provided after. *)
C12_ImplicitPromoted ==
  [][(op'.kind = "provide" /\ op'.name \in implicitNamespaces_) =>
       /\ err' = NoError
       /\ op'.name \notin implicitNamespaces_'
       /\ isProvidedIn(global', implicitNamespaces_', op'.name)
       /\ getObjectByName(op'.name) = "obj" =>
            /\ global' = global
            /\ implicitNamespaces_' = implicitNamespaces_ \ {op'.name}
            /\ \A d \in NsNames : isProvided_(d) => isProvided_(d)']_vars

\* goog.provide('a.b.c') made 'a.b' implicit, then goog.provide('a.b') promoted it
C12_Witness ==
  /\ op.kind = "provide" /\ op.name = AB /\ err = NoError
  /\ declared = {ABC, AB}
  /\ implicitNamespaces_ = {A}
  /\ isProvided_(AB) /\ isProvided_(ABC)

\* the callback returned false for the k-th path handed over in the step just taken
FailedAt(k) ==
  /\ Src(HandedNow[k]) \notin written'
  /\ ~(pass'.status = "running" /\ k = Len(HandedNow))

(* C13, as claimed: when the import callback returns false for a path, the loader
   raises an error and hands no later path of the sequence to the callback. *)
C13_FailureHalts ==
  [][\A k \in 1..Len(HandedNow) :
       FailedAt(k) => err' # NoError /\ k = Len(HandedNow)]_vars

(* C13, amended: a false return raises no error and stops nothing; a pass that has
   run to its end has handed to the callback every path of its sequence that was not
   in dependencies_.written when its turn came, and the paths whose import failed
   are not in dependencies_.written. *)
C13_FailureSkipped ==
  [][(op'.kind \in {"require", "return"} /\ pass'.status = "complete") =>
       /\ err' = NoError
       /\ \A k \in 1..Len(pass'.scripts) :
            pass'.scripts[k] \in Range(pass'.imported) \/ Src(pass'.scripts[k]) \in written'
       /\ \A k \in 1..Len(HandedNow) :
            (Src(HandedNow[k]) \notin written /\ Src(HandedNow[k]) \in written')
              \/ FailedAt(k)]_vars

\* on the chain, the import of m1 failed, m2 was imported, the import of m3 failed
C13_Witness ==
  /\ WholePass
  /\ err = NoError
  /\ pass.imported = Chain
  /\ written = {Src("m2")}

(* C14: when a goog.require(n) pass ran to its end with the import of some path
   failing, and goog.require(n) is called again (n still not provided, the requires
   graph acyclic), the second pass hands to the import callback every path of the
   first pass's sequence that is not in dependencies_.written, a required module
   before the module requiring it. *)
C14_RetryAfterFailure ==
  [][(/\ WholePass
      /\ err = NoError
      /\ \E p \in Range(pass.imported) : Src(p) \notin written
      /\ op'.kind = "require"
      /\ op'.name = op.name
      /\ ~isProvided_(op.name)
      /\ Acyclic
      /\ pass'.status = "complete")
     => /\ \A p \in Range(pass.scripts) :
             Src(p) \notin written => p \in Range(pass'.imported)
        /\ \A i, j \in 1..Len(pass'.imported) :
             i < j => ~RequiresModule(pass'.imported[i], pass'.imported[j])]_vars

\* the walk over the request set incl started with every module path unvisited
WalkUnvisited(incl) ==
  visitIncluded(incl, 1,
    [visited |-> {}, seenScript |-> {}, scripts |-> <<>>, err |-> NoError])

(* C15: every goog.writeScripts_ pass computes what a walk started with no module
   path visited computes from the same dependency index, provided namespaces,
   request set and dependencies_.written: the same sequence, or the same error. *)
C15_VisitedScopedToPass ==
  [][(op'.kind = "require" /\ pass'.status # "none") =>
       LET fresh == WalkUnvisited(included_')
       IN IF fresh.err # NoError
            THEN err' = fresh.err
            ELSE err' = NoError /\ pass'.scripts = fresh.scripts]_vars

(* C16: a goog.require of a namespace that is not provided, called by a module the
   import callback is running, hands to the callback no path that a pass still in
   progress has handed over already (the running module among them); and when the
   callback returns, the pass in progress hands over the rest of its sequence, every
   remaining path in the computed order. *)
C16_NestedRequireDoesNotInterleave ==
  [][/\ (op'.kind = "require" /\ stack # <<>> /\ ~isProvided_(op'.name)) =>
          \A k \in 1..Len(HandedNow) : \A d \in 1..Len(stack) :
            HandedNow[k] \notin Range(stack[d].imported)
     /\ (op'.kind = "return" /\ pass'.status = "complete") =>
          LET f == stack[Len(stack)]
          IN HandedNow = SubSeq(f.scripts, f.i + 1, Len(f.scripts))]_vars

\* the namespaces registered as provided by module path
ProvidesOf(path) == IF path \in DOMAIN pathToNames THEN pathToNames[path] ELSE {}

NotWritten(path) == Src(path) \notin written

(* C17, as claimed: when a pass hands a path to the import callback right after a
   path whose import succeeded, the namespaces of the earlier module are provided at
   that moment. *)
C17_ProvidesObservableBeforeNext ==
  [][op'.kind = "require" =>
       \A k \in 1..(Len(HandedNow) - 1) :
         Src(HandedNow[k]) \in written' =>
           \A n \in ProvidesOf(HandedNow[k]) : isProvided_(n)]_vars

(* C17, amended: the pass does not wait for a module to declare its namespaces.  A
   goog.require call whose callbacks all return without running a module hands over,
   in the order of the sequence, every path of the sequence that is not in
   dependencies_.written, and provides nothing: the namespaces of the modules it
   handed over are no more provided after the call than before. *)
C17_HandedInOrderWithoutWaiting ==
  [][(op'.kind = "require" /\ pass'.status = "complete") =>
       /\ pass'.imported = SelectSeq(pass'.scripts, NotWritten)
       /\ \A n \in LoaderNames :
            isProvidedIn(global', implicitNamespaces_', n) = isProvided_(n)]_vars

\* the chain was handed over and recorded as written in one call, with none of its
\* namespaces provided
C17_Witness ==
  /\ WholePass
  /\ pass.imported = Chain
  /\ \A k \in 1..3 : Src(Chain[k]) \in written
  /\ \A n \in LoaderNames : ~isProvided_(n)

(* C18: the scripts sequence a pass computes holds no module path twice, whatever
   the requires graph (shared requirements, several requested roots, cycles,
   modules visited by earlier passes). *)
C18_NoDuplicateInScripts ==
  \A i, j \in 1..Len(pass.scripts) : i # j => pass.scripts[i] # pass.scripts[j]

\* m3 requires x and y, m2 requires x too: the walk reached m1 along both paths
C18_Witness ==
  /\ op.kind = "require" /\ op.name = Z
  /\ RequiresOf("m3") = <<X, Y>>
  /\ RequiresOf("m2") = <<X>>
  /\ nameToPath = (X :> "m1" @@ Y :> "m2" @@ Z :> "m3")
  /\ pass.scripts = <<"m1", "m2", "m3">>

(* C19: no pass appends to its scripts sequence a module path whose import has
   succeeded before the pass (its src is in dependencies_.written), be the path a
   requested root or the owner of a requirement, and whatever goog.basePath is. *)
C19_WrittenNeverInScripts ==
  [][op'.kind = "require" =>
       \A k \in 1..Len(pass'.scripts) : Src(pass'.scripts[k]) \notin written]_vars

(* C20: a goog.require call whose walk throws 'Undefined nameToPath for r' hands no
   path to the import callback, the modules the walk had appended before the throw
   included, and leaves dependencies_.written as it was. *)
C20_AbortedWalkImportsNothing ==
  [][(op'.kind = "require" /\ \E r \in LoaderNames : err' = UndefinedNameToPath(r)) =>
       /\ HandedNow = <<>>
       /\ everImported' = everImported
       /\ written' = written]_vars

\* m3 requires x and y: the walk went through m1, the owner of x, and then threw
\* for y; m1 was not imported
C20_Witness ==
  /\ op.kind = "require" /\ op.name = Z
  /\ err = UndefinedNameToPath(Y)
  /\ visited = {"m1", "m3"}
  /\ everImported = {}
  /\ written = {}

(* C21: dependencies_.written only grows: a src recorded in it is recorded in every
   later state, whatever fails or throws afterwards. *)
C21_WrittenOnlyGrows ==
  [][written \subseteq written']_vars

\* m1 was imported and recorded, then the import of m2 failed in the same pass
C21_Witness ==
  /\ WholePass
  /\ pass.imported = <<"m1", "m2">>
  /\ written = {Src("m1")}

\* the proper ancestors of a namespace name: 'a' and 'a.b' for 'a.b.c'
Ancestors(name) == {Prefix(name, k) : k \in 1..(Len(name) - 1)}

(* C22: after a goog.provide(path) that succeeded, path is not in
   goog.implicitNamespaces_, and every proper ancestor of path that no goog.provide
   call ever declared is in goog.implicitNamespaces_, goog.isProvided_ being false
   for it; also when the ancestor resolved to an object before the call. *)
C22_UndeclaredAncestorsImplicit ==
  [][(op'.kind = "provide" /\ err' = NoError) =>
       /\ op'.name \notin implicitNamespaces_'
       /\ \A anc \in Ancestors(op'.name) :
            anc \notin everDeclared' =>
              /\ anc \in implicitNamespaces_'
              /\ ~isProvidedIn(global', implicitNamespaces_', anc)]_vars

(* C23: goog.isProvided_(path) is true exactly when goog.getObjectByName(path) finds
   a value (every part defined and not null) and path is not in
   goog.implicitNamespaces_, whatever the value found: an object or a falsy value
   that is not null. *)
C23_ProvidedIffMaterialized ==
  \A n \in NsNames :
    isProvided_(n) <=> (getObjectByName(n) # "null" /\ n \notin implicitNamespaces_)

(* C24: a goog.provide(path) call that throws 'already declared' leaves
   goog.implicitNamespaces_, the namespace objects, the dependency index and the
   loader's sets (goog.included_, dependencies_.visited, dependencies_.written) as
   they were before the call. *)
C24_FailedProvideChangesNothing ==
  [][(op'.kind = "provide" /\ err' # NoError) =>
       /\ err' = AlreadyDeclared(op'.name)
       /\ UNCHANGED <<implicitNamespaces_, global>>
       /\ UNCHANGED <<nameToPath, pathToNames, requires>>
       /\ UNCHANGED <<included_, visited, written>>]_vars

\* goog.provide('a.b.c') failed in a registry that holds implicit ancestors
C24_Witness ==
  /\ op.kind = "provide" /\ op.name = ABC
  /\ err = AlreadyDeclared(ABC)
  /\ implicitNamespaces_ = {A, AB}
  /\ global[ABC] = "obj"

\* the dependency index holds everything goog.addDependency(path, provides, reqs)
\* records, as it does right after such a call
Registered(path, provides, reqs) ==
  /\ \A n \in Range(provides) :
       /\ Owned(n) /\ nameToPath[n] = path
       /\ path \in DOMAIN pathToNames /\ n \in pathToNames[path]
  /\ Range(reqs) \subseteq Range(RequiresOf(path))

(* C25: goog.addDependency called again with a module path, provides and requires
   that the dependency index already records for that path raises no error and
   leaves nameToPath, pathToNames and requires as they were. *)
C25_SameLineTwiceIsNoOp ==
  [][\A d \in DepLines :
       (Registered(d[1], d[2], d[3]) /\ AddDependency(d[1], d[2], d[3])) =>
         /\ err' = NoError
         /\ UNCHANGED <<nameToPath, pathToNames, requires>>]_vars

\* goog.addDependency('m2', ['y'], ['x']) was called twice and nothing else
C25_Witness ==
  /\ op.kind = "addDependency" /\ op.path = "m2"
  /\ nCalls = 2
  /\ nameToPath = (Y :> "m2")
  /\ pathToNames = ("m2" :> {Y})
  /\ requires = ("m2" :> <<X>>)

\* module a comes before module b in seq
Before(seq, a, b) == \E i, j \in 1..Len(seq) : i < j /\ seq[i] = a /\ seq[j] = b

\* the owner of the j-th requirement of rs is reached by none of the requirements
\* listed before it
FirstReachedAt(rs, j) ==
  \A k \in 1..(j - 1) :
    Owned(rs[k]) =>
      /\ nameToPath[rs[k]] # nameToPath[rs[j]]
      /\ nameToPath[rs[j]] \notin Needs(nameToPath[rs[k]])

(* C26: the requirements of a module are walked in the order in which
   goog.addDependency registered them for it.  In the first pass of a page, for two
   requirements of the requested module that are not provided and are owned by two
   other modules, the owner of the one registered first comes first in the scripts
   sequence, unless a requirement registered earlier already leads to the other
   owner. *)
C26_RequirementsInInsertionOrder ==
  [][(/\ op'.kind = "require"
      /\ included_ = <<>> /\ visited = {}
      /\ pass'.status # "none"
      /\ err' = NoError)
     => LET p == nameToPath[op'.name]
            rs == RequiresOf(p)
        IN \A i, j \in 1..Len(rs) :
             (/\ i < j
              /\ ~isProvided_(rs[i]) /\ ~isProvided_(rs[j])
              /\ nameToPath[rs[i]] # p /\ nameToPath[rs[j]] # p
              /\ FirstReachedAt(rs, j))
             => Before(pass'.scripts, nameToPath[rs[i]], nameToPath[rs[j]])]_vars

\* m3 lists y before x, their owners m2 and m1 are independent: m2 came first
C26_Witness ==
  /\ op.kind = "require" /\ op.name = Z
  /\ RequiresOf("m3") = <<Y, X>>
  /\ RequiresOf("m2") = <<>> /\ RequiresOf("m1") = <<>>
  /\ nameToPath = (X :> "m1" @@ Y :> "m2" @@ Z :> "m3")
  /\ pass.scripts = <<"m2", "m1", "m3">>

\* module a requires, by a namespace not provided, module b, and everything b
\* requires is a namespace not provided that a owns
ClosesCycleAt(a, b) ==
  /\ b # a
  /\ \E r \in Range(RequiresOf(a)) :
       Owned(r) /\ nameToPath[r] = b /\ ~isProvided_(r)
  /\ RequiresOf(b) # <<>>
  /\ \A r \in Range(RequiresOf(b)) :
       Owned(r) /\ nameToPath[r] = a /\ ~isProvided_(r)

(* C27: a module the walk reaches while it is being visited is appended to scripts
   where it is reached, once, and is not entered again.  In the first pass of a
   page, when the requested module a requires b and b requires nothing but a, scripts
   holds a and b once each, a before b. *)
C27_CycleClosingModuleFirst ==
  [][(/\ op'.kind = "require"
      /\ included_ = <<>> /\ visited = {}
      /\ pass'.status # "none"
      /\ err' = NoError)
     => LET a == nameToPath[op'.name]
        IN \A b \in Modules :
             ClosesCycleAt(a, b)
             => /\ Before(pass'.scripts, a, b)
                /\ Count(pass'.scripts, a) = 1
                /\ Count(pass'.scripts, b) = 1]_vars

\* m1 requires y of m2, m2 requires x of m1, x was required: scripts is m1, m2
C27_Witness ==
  /\ op.kind = "require" /\ op.name = X
  /\ err = NoError
  /\ nameToPath = (X :> "m1" @@ Y :> "m2")
  /\ RequiresOf("m1") = <<Y>> /\ RequiresOf("m2") = <<X>>
  /\ included_ = <<"m1">>
  /\ pass.scripts = <<"m1", "m2">>

(* C28: after goog.require passes that were aborted by a requirement without an
   owner (modules are marked visited, none was ever handed to the import callback),
   and a goog.addDependency call that registers the missing owner, a goog.require(n)
   for which every requirement reached from the owner of n now has an owner and none
   is provided, the requires graph acyclic, ends without error and its scripts holds
   every module the owner of n reaches, before the owner of n. *)
C28_AbortedPassDoesNotHideModules ==
  [][(/\ op.kind = "addDependency"
      /\ visited # {} /\ everImported = {}
      /\ op'.kind = "require"
      /\ Owned(op'.name) /\ ~isProvided_(op'.name)
      /\ Acyclic
      /\ RequirementsOwnedAndOpen(nameToPath[op'.name]))
     => /\ err' = NoError
        /\ \A b \in Needs(nameToPath[op'.name]) :
             Before(pass'.scripts, b, nameToPath[op'.name])]_vars

(* C29: goog.included_ only grows, keeping its keys in place; and every
   goog.require pass that is not aborted holds in scripts every path ever requested
   whose src is not in dependencies_.written, whatever namespace was required, and
   hands it to the import callback when the pass runs to its end. *)
C29_RequestSetOnlyGrows ==
  [][/\ Len(included_) <= Len(included_')
     /\ SubSeq(included_', 1, Len(included_)) = included_
     /\ (op'.kind = "require" /\ pass'.status # "none" /\ err' = NoError)
        => \A p \in Range(included_') :
             Src(p) \notin written
             => /\ p \in Range(pass'.scripts)
                /\ pass'.status = "complete" => p \in Range(pass'.imported)]_vars

\* the import of m1 failed when x was required; the later goog.require of y, whose
\* owner m2 requires nothing, handed m1 to the import callback again
C29_Witness ==
  /\ op.kind = "require" /\ op.name = Y
  /\ nameToPath = (X :> "m1" @@ Y :> "m2")
  /\ RequiresOf("m2") = <<>>
  /\ included_ = <<"m1", "m2">>
  /\ pass.status = "complete"
  /\ pass.imported = <<"m1", "m2">>
  /\ Src("m1") \notin written

(* C30: a namespace that is in goog.implicitNamespaces_ satisfies no requirement.
   goog.require of it registers its owner in goog.included_ and runs the walk, the
   owner being in scripts when the walk ends without error and the owner is not
   written, or throws 'goog.require could not find' when it has no owner; and in the
   first pass of a page a requirement on it is followed to its owner, which is in
   scripts, or aborts the walk when it has no owner. *)
C30_ImplicitNeverSatisfies ==
  [][/\ (op'.kind = "require" /\ op'.name \in implicitNamespaces_)
        => IF Owned(op'.name)
             THEN /\ pass'.status # "none"
                  /\ nameToPath[op'.name] \in Range(included_')
                  /\ (err' = NoError /\ Src(nameToPath[op'.name]) \notin written)
                       => nameToPath[op'.name] \in Range(pass'.scripts)
             ELSE err' = CouldNotFind(op'.name)
     /\ (/\ op'.kind = "require"
         /\ pass'.status # "none"
         /\ included_ = <<>> /\ visited = {})
        => \A r \in Range(RequiresOf(nameToPath[op'.name])) :
             r \in implicitNamespaces_
             => IF Owned(r)
                  THEN err' = NoError => nameToPath[r] \in Range(pass'.scripts)
                  ELSE err' # NoError]_vars

\* goog.provide('a.b') left a implicit; a.b.c was required, its owner m2 requires a:
\* the owner m1 of a was put in scripts before m2
C30_Witness ==
  /\ op.kind = "require" /\ op.name = ABC
  /\ A \in implicitNamespaces_ /\ Truthy(getObjectByName(A))
  /\ nameToPath = (A :> "m1" @@ ABC :> "m2")
  /\ RequiresOf("m2") = <<A>>
  /\ pass.scripts = <<"m1", "m2">>

====
